---- MODULE Spec2Model ----
\* Model of package mergefs (hslam/mergefs): a merged file (File) backed by
\* numFiles segmented append-only log files (SegFile).  The model follows the
\* current version of the package (type File with the size field, SegFile
\* with binary search in ReadAt, the header marshalled as 16 raw bytes).
EXTENDS Integers, Sequences, FiniteSets, TLC

\* ---------------------------------------------------------------- bounds
MaxWrites == 3      \* writes issued in one behaviour
MaxOff == 2         \* largest logical offset of a write
MaxLen == 2         \* largest payload length of a write
MaxReadOff == 5     \* largest start offset of a read
MaxBuf == 3         \* largest buffer length of a read
MaxIOWrites == 2    \* writes issued in one behaviour with failing I/O
MaxSegs == 2        \* longest list of segs handed to mergeSegs on its own
MaxTail == 2        \* 16-byte blocks behind the first header of a replayed log
MaxReplay == 4      \* records the replay of a log indexes before it is cut off

\* ------------------------------------------------------- program constants
numFiles == 2
segHeaderSize == 16

Shards == 0 .. (numFiles - 1)

VARIABLES
    disk,     \* disk[i]: the bytes of the os.File behind shard i
    files,    \* files[i]: the SegFile of shard i: segs, off (append cursor), size
    size,     \* File.size
    opened,   \* TRUE between OpenFile and File.Close
    hist,     \* the WriteAt calls made so far, in call order (history)
    last,     \* the last call and what it returned
    handles   \* handles[i]: the os.File of shard i is open

vars == <<disk, files, size, opened, hist, last, handles>>

Min(a, b) == IF a < b THEN a ELSE b
Max(a, b) == IF a > b THEN a ELSE b

\* -------------------------------------------------------------- segHeader
\* One uint64 as 8 little-endian bytes (the memory layout marshal exposes).
RECURSIVE PutUint64(_, _)
PutUint64(x, k) ==
    IF k = 0 THEN <<>> ELSE <<x % 256>> \o PutUint64(x \div 256, k - 1)

RECURSIVE Uint64(_, _)
Uint64(b, k) ==
    IF k = 0 THEN 0 ELSE b[1] + 256 * Uint64(Tail(b), k - 1)

\* segHeader.marshal: the 16 bytes of {off, size}.
marshal(h) == PutUint64(h.off, 8) \o PutUint64(h.size, 8)

\* segHeader.unmarshal: the header held by the first 16 bytes of b.
unmarshal(b) ==
    [off |-> Uint64(SubSeq(b, 1, 8), 8), size |-> Uint64(SubSeq(b, 9, 16), 8)]

\* ---------------------------------------------------------------- os.File
\* os.File.WriteAt(b, pos): positioned write; nothing happens for empty b,
\* a write past the end leaves a zero-filled gap.
osWriteAt(d, b, pos) ==
    IF Len(b) = 0 THEN d
    ELSE [x \in 1 .. Max(Len(d), pos + Len(b)) |->
            IF x > pos /\ x <= pos + Len(b) THEN b[x - pos]
            ELSE IF x <= Len(d) THEN d[x] ELSE 0]

\* os.File.ReadAt(b, pos) with len(b) = n: the bytes read into b (b starts
\* zeroed), the count and the error (io.EOF whenever fewer than n were read).
osReadAt(d, n, pos) ==
    LET got == Max(0, Min(n, Len(d) - pos))
    IN [b   |-> [x \in 1 .. n |-> IF x <= got THEN d[pos + x] ELSE 0],
        n   |-> got,
        err |-> IF got < n THEN "EOF" ELSE "nil"]

\* ---------------------------------------------------------------- SegFile
\* The replay that records the position of the header as the position of
\* the payload (the 16 bytes of the header forgotten in pos).
RECURSIVE OpenSegFileLoop_PosAtHeader(_, _, _)
OpenSegFileLoop_PosAtHeader(d, f, off) ==
    LET r == osReadAt(d, segHeaderSize, off)
    IN IF r.err # "nil" \/ r.n # segHeaderSize THEN f
       ELSE LET h == unmarshal(r.b)
                s == [off |-> h.off, size |-> h.size, pos |-> off]
                g == [segs |-> Append(f.segs, s),
                      off  |-> f.off + segHeaderSize + s.size,
                      size |-> s.off + s.size]
            IN OpenSegFileLoop_PosAtHeader(d, g, g.off)

\* OpenSegFile: replay of the log from position 0.
RECURSIVE OpenSegFileLoop(_, _, _)
OpenSegFileLoop(d, f, off) ==
    LET r == osReadAt(d, segHeaderSize, off)
    IN IF r.err # "nil" \/ r.n # segHeaderSize THEN f
       ELSE LET h == unmarshal(r.b)
                s == [off |-> h.off, size |-> h.size, pos |-> off + segHeaderSize]
                g == [segs |-> Append(f.segs, s),
                      off  |-> f.off + segHeaderSize + s.size,
                      size |-> s.off + s.size]
            IN OpenSegFileLoop(d, g, g.off)

OpenSegFile(d) == OpenSegFileLoop(d, [segs |-> <<>>, off |-> 0, size |-> 0], 0)

\* SegFile.WriteAt with the payload position taken as the cursor itself
\* (the header size forgotten in pos).
SegFileWriteAt_PosAtCursor(f, d, b, off) ==
    LET s  == [off |-> off, size |-> Len(b), pos |-> f.off]
        d1 == osWriteAt(d, marshal([off |-> s.off, size |-> s.size]), f.off)
        d2 == osWriteAt(d1, b, s.pos)
    IN [f    |-> [segs |-> Append(f.segs, s),
                  off  |-> f.off + segHeaderSize + s.size,
                  size |-> f.size + s.size],
        disk |-> d2,
        n    |-> Len(b),
        err  |-> "nil"]

\* SegFile.WriteAt with the cursor advanced by the payload length only.
SegFileWriteAt_ShortCursor(f, d, b, off) ==
    LET s  == [off |-> off, size |-> Len(b), pos |-> f.off + segHeaderSize]
        d1 == osWriteAt(d, marshal([off |-> s.off, size |-> s.size]), f.off)
        d2 == osWriteAt(d1, b, s.pos)
    IN [f    |-> [segs |-> Append(f.segs, s),
                  off  |-> f.off + s.size,
                  size |-> f.size + s.size],
        disk |-> d2,
        n    |-> Len(b),
        err  |-> "nil"]

\* os.File.WriteAt(b, pos) that gets k of the bytes of b into the file: the
\* new file bytes, the count and the error (non-nil whenever k # len(b)).
osWriteAtIO(d, b, pos, k) ==
    [disk |-> osWriteAt(d, SubSeq(b, 1, k), pos),
     n    |-> k,
     err  |-> IF k < Len(b) THEN "EIO" ELSE "nil"]

\* SegFile.WriteAt(b, off) when the write of the header gets hw bytes into
\* the file and the write of the payload pw bytes: the new SegFile, the new
\* file bytes, n and err.  What the write of the header returns is dropped.
SegFileWriteAtIO(f, d, b, off, hw, pw) ==
    LET s  == [off |-> off, size |-> Len(b), pos |-> f.off + segHeaderSize]
        w1 == osWriteAtIO(d, marshal([off |-> s.off, size |-> s.size]), f.off, hw)
        w2 == osWriteAtIO(w1.disk, b, s.pos, pw)
    IN [f    |-> [segs |-> Append(f.segs, s),
                  off  |-> f.off + segHeaderSize + s.size,
                  size |-> f.size + s.size],
        disk |-> w2.disk,
        n    |-> w2.n,
        err  |-> w2.err]

\* SegFile.WriteAt(b, off), both writes of the file succeeding: the new
\* SegFile, the new file bytes, n and err.
SegFileWriteAt(f, d, b, off) ==
    SegFileWriteAtIO(f, d, b, off, segHeaderSize, Len(b))

\* sort.Search(n, pred) over f.segs with pred(i) = segs[i].off > off
\* (indices here are 1-based: the result is the 0-based result plus 1).
RECURSIVE Search(_, _, _, _)
Search(segs, off, i, j) ==
    IF i < j
    THEN LET h == (i + j) \div 2
         IN IF ~(segs[h + 1].off > off) THEN Search(segs, off, h + 1, j)
            ELSE Search(segs, off, i, h)
    ELSE i

\* os.File.ReadAt(b, pos) with len(b) = n that fails when fail holds (a
\* read of no bytes never reaches the file and cannot fail).
osReadAtIO(d, n, pos, fail) ==
    IF fail /\ n > 0
    THEN [b |-> [x \in 1 .. n |-> 0], n |-> 0, err |-> "EIO"]
    ELSE osReadAt(d, n, pos)

\* The scan of SegFile.ReadAt from index i (1-based); the read of the
\* payload of descriptor i fails when i is in bad.
RECURSIVE SegScanIO(_, _, _, _, _, _, _)
SegScanIO(f, d, bad, off, sz, i, acc) ==
    IF i > Len(f.segs) THEN acc
    ELSE LET s == f.segs[i]
         IN IF s.off + s.size <= off THEN SegScanIO(f, d, bad, off, sz, i + 1, acc)
            ELSE IF s.off >= off + sz THEN acc
            ELSE LET r  == osReadAtIO(d, s.size, s.pos, i \in bad)
                     cp == [off |-> s.off, size |-> s.size, pos |-> s.pos,
                            data |-> r.b]
                 IN SegScanIO(f, d, bad, off, sz, i + 1,
                              [segs |-> Append(acc.segs, cp), err |-> r.err])

\* The scan of SegFile.ReadAt from index i, no read of the file failing.
SegScan(f, d, off, sz, i, acc) == SegScanIO(f, d, {}, off, sz, i, acc)

\* SegFile.ReadAt(off, size): the segs of the shard that the scan collects
\* and the error; the reads of the payloads of the descriptors in bad fail.
SegFileReadAtIO(f, d, bad, off, sz) ==
    LET idx   == Search(f.segs, off, 0, Len(f.segs))
        start == IF idx - 1 < 0 THEN 0 ELSE idx - 1
    IN SegScanIO(f, d, bad, off, sz, start + 1, [segs |-> <<>>, err |-> "nil"])

\* SegFile.ReadAt(off, size), no read of the file failing.
SegFileReadAt(f, d, off, sz) == SegFileReadAtIO(f, d, {}, off, sz)

\* -------------------------------------------------------------- mergeSegs
\* The comparison of mergeSegs with the tie on the offset decided the other
\* way round (the shorter seg taken last).
TakeM_TieShorterLast(a, b) ==
    a.off > b.off \/ (a.off = b.off /\ (a.size = b.size \/ a.size < b.size))

\* The comparison of mergeSegs without its clause for equal offsets.
TakeM_OffsetOnly(a, b) == a.off > b.off

\* m[i].off > n[j].off || m[i].off == n[j].off && m[i].size >= n[j].size
TakeM(a, b) == a.off > b.off \/ (a.off = b.off /\ (a.size = b.size \/ a.size > b.size))

\* The first loop of mergeSegs without the second, which moves the rest of n.
RECURSIVE mergeLoop_NoRest(_, _, _, _, _)
mergeLoop_NoRest(m, n, i, j, k) ==
    IF i >= 1 /\ j >= 1
    THEN IF TakeM(m[i], n[j])
         THEN mergeLoop_NoRest([m EXCEPT ![k] = m[i]], n, i - 1, j, k - 1)
         ELSE mergeLoop_NoRest([m EXCEPT ![k] = n[j]], n, i, j - 1, k - 1)
    ELSE m

\* Both loops of mergeSegs on m (already extended by n); i, j, k 1-based.
RECURSIVE mergeLoop(_, _, _, _, _)
mergeLoop(m, n, i, j, k) ==
    IF i >= 1 /\ j >= 1
    THEN IF TakeM(m[i], n[j])
         THEN mergeLoop([m EXCEPT ![k] = m[i]], n, i - 1, j, k - 1)
         ELSE mergeLoop([m EXCEPT ![k] = n[j]], n, i, j - 1, k - 1)
    ELSE IF j >= 1
         THEN mergeLoop([m EXCEPT ![k] = n[j]], n, i, j - 1, k - 1)
         ELSE m

\* mergeSegs that appends b to a without ordering them.
mergeSegs_Concat(a, b) == a \o b

mergeSegs(a, b) ==
    IF Len(a) = 0 THEN b
    ELSE IF Len(b) = 0 THEN a
    ELSE LET m == IF Len(a) < Len(b) THEN b ELSE a
             n == IF Len(a) < Len(b) THEN a ELSE b
         IN mergeLoop(m \o n, n, Len(m), Len(n), Len(m) + Len(n))

\* ------------------------------------------------------------------- File
\* What File.ReadAt hands back: n, err and the buffer; "panic" stands for the
\* run-time panic of an out-of-range slice expression.
Panic == [n |-> 0, err |-> "panic", b |-> <<>>]

\* No read of any shard's file fails.
NoBad == [i \in Shards |-> {}]

\* The shard loop of File.ReadAt: query and merge, shard after shard; in
\* shard i the reads of the payloads of the descriptors in bads[i] fail.
RECURSIVE QueryAllIO(_, _, _, _, _, _, _)
QueryAllIO(fs, ds, bads, off, length, i, segs) ==
    IF i >= numFiles THEN [segs |-> segs, err |-> "nil"]
    ELSE LET r == SegFileReadAtIO(fs[i], ds[i], bads[i], off, length)
         IN IF r.err # "nil" /\ r.err # "EOF" THEN [segs |-> <<>>, err |-> r.err]
            ELSE QueryAllIO(fs, ds, bads, off, length, i + 1,
                            mergeSegs(segs, r.segs))

\* The shard loop of File.ReadAt, no read of a file failing.
QueryAll(fs, ds, off, length, i, segs) ==
    QueryAllIO(fs, ds, NoBad, off, length, i, segs)

RECURSIVE CopyLoop(_, _, _, _, _)

\* The copy loop copying from the start of s.data instead of s.data[segOff:].
RECURSIVE CopyLoop_FromStart(_, _, _, _, _)
CopyLoop_FromStart(segs, i, off, n, b) ==
    IF ~(i <= Len(segs) /\ n < Len(b)) THEN [n |-> n, err |-> "nil", b |-> b]
    ELSE LET s         == segs[i]
             segOff    == off - s.off
             segRemain == s.size - segOff
             readSize  == IF segRemain > Len(b) - n THEN Len(b) - n ELSE segRemain
         IN IF readSize < 0 \/ segOff < 0 \/ segOff > Len(s.data) THEN Panic
            ELSE LET num == Min(readSize, Len(s.data))
                 IN CopyLoop_FromStart(segs, i + 1, off + num, n + num,
                             [x \in 1 .. Len(b) |->
                                 IF x > n /\ x <= n + num
                                 THEN s.data[x - n] ELSE b[x]])

\* The copy loop of File.ReadAt (i 1-based).
CopyLoop(segs, i, off, n, b) ==
    IF ~(i <= Len(segs) /\ n < Len(b)) THEN [n |-> n, err |-> "nil", b |-> b]
    ELSE LET s         == segs[i]
             segOff    == off - s.off
             segRemain == s.size - segOff
             readSize  == IF segRemain > Len(b) - n THEN Len(b) - n ELSE segRemain
         IN IF readSize < 0 \/ segOff < 0 \/ segOff > Len(s.data) THEN Panic
            ELSE LET num == Min(readSize, Len(s.data) - segOff)
                 IN CopyLoop(segs, i + 1, off + num, n + num,
                             [x \in 1 .. Len(b) |->
                                 IF x > n /\ x <= n + num
                                 THEN s.data[segOff + (x - n)] ELSE b[x]])

\* File.ReadAt(b, off) with len(b) = length on the File (fs, ds, sz); in
\* shard i the reads of the payloads of the descriptors in bads[i] fail.
FileReadAtIO(fs, ds, bads, sz, length, off) ==
    IF off > sz THEN [n |-> 0, err |-> "EOF", b |-> [x \in 1 .. length |-> 0]]
    ELSE LET q == QueryAllIO(fs, ds, bads, off, length, 0, <<>>)
         IN IF q.err # "nil" THEN [n |-> 0, err |-> q.err, b |-> [x \in 1 .. length |-> 0]]
            ELSE CopyLoop(q.segs, 1, off, 0, [x \in 1 .. length |-> 0])

\* File.ReadAt(b, off), no read of a file failing.
FileReadAt(fs, ds, sz, length, off) == FileReadAtIO(fs, ds, NoBad, sz, length, off)

\* The payload of the k-th write: the code only copies payload bytes, so
\* every write carries bytes that name the write and the position.
Payload(k, len) == [p \in 1 .. len |-> 16 * k + p]

NoCall == [op |-> "none"]

Init ==
    /\ disk = [i \in Shards |-> <<>>]
    /\ files = [i \in Shards |-> OpenSegFile(<<>>)]
    /\ size = 0
    /\ opened = TRUE
    /\ hist = <<>>
    /\ last = NoCall
    /\ handles = [i \in Shards |-> TRUE]

\* File.WriteAt(b, off) on shard i, whose SegFile.WriteAt gave r.
FileWriteAt(i, off, b, r) ==
    /\ files' = [files EXCEPT ![i] = r.f]
    /\ disk' = [disk EXCEPT ![i] = r.disk]
    /\ size' = IF r.err # "nil" THEN size ELSE size + Len(b)
    /\ hist' = Append(hist, [off |-> off, b |-> b, shard |-> i])
    /\ last' = [op |-> "WriteAt", shard |-> i, off |-> off, b |-> b,
                n |-> r.n, err |-> r.err]
    /\ UNCHANGED <<opened, handles>>

\* File.WriteAt(b, off): f.file() picks the shard at random.
WriteAt ==
    /\ opened
    /\ Len(hist) < MaxWrites
    /\ \E i \in Shards, off \in 0 .. MaxOff, len \in 0 .. MaxLen :
         LET b == Payload(Len(hist) + 1, len)
         IN FileWriteAt(i, off, b, SegFileWriteAt(files[i], disk[i], b, off))

\* How many bytes of the 16 a write of the header may get into the file.
HeaderWritten == {0, segHeaderSize}

\* File.WriteAt(b, off) when the writes of the file may fail: each of the
\* two writes gets all of its bytes into the file or fewer.
WriteAtIO ==
    /\ opened
    /\ Len(hist) < MaxIOWrites
    /\ \E i \in Shards, off \in 0 .. MaxOff, len \in 0 .. MaxLen :
         \E hw \in HeaderWritten, pw \in 0 .. len :
            LET b == Payload(Len(hist) + 1, len)
            IN FileWriteAt(i, off, b,
                           SegFileWriteAtIO(files[i], disk[i], b, off, hw, pw))

\* The buffers and start offsets of the reads.
Windows == (0 .. MaxReadOff) \X (0 .. MaxBuf)

\* File.ReadAt(b, off) on the File as it is now; w = <<off, len(b)>>.
Read(w) == FileReadAt(files, disk, size, w[2], w[1])

\* File.ReadAt(b, off): the call returns (or panics) and leaves the File,
\* the shards and their files as they were.
ReadAt ==
    /\ opened
    /\ \E w \in Windows : Read(w).err \in {"nil", "EOF", "panic"}
    /\ UNCHANGED vars

\* The loop of File.Close from shard i on: os.File.Close fails on the
\* shards of F; a handle is released by its Close also when Close reports
\* an error.  The handles after the loop and the error File.Close returns.
RECURSIVE CloseLoop(_, _, _)
CloseLoop(h, F, i) ==
    IF i >= numFiles THEN [handles |-> h, err |-> "nil"]
    ELSE LET g == [h EXCEPT ![i] = FALSE]
         IN IF i \in F THEN [handles |-> g, err |-> "EIO"]
            ELSE CloseLoop(g, F, i + 1)

\* File.Close when os.File.Close fails on the shards of one set of FS.
CloseWith(FS) ==
    /\ opened
    /\ \E F \in FS :
         LET r == CloseLoop(handles, F, 0)
         IN /\ handles' = r.handles
            /\ last' = [op |-> "Close", err |-> r.err]
    /\ opened' = FALSE
    /\ UNCHANGED <<disk, files, size, hist>>

\* File.Close, every os.File.Close succeeding.
Close == CloseWith({{}})

\* The loop of OpenFile over the opened shards: the largest SegFile.size.
RECURSIVE OpenFileSize(_, _, _)
OpenFileSize(fs, i, sz) ==
    IF i >= numFiles THEN sz
    ELSE OpenFileSize(fs, i + 1, IF fs[i].size > sz THEN fs[i].size ELSE sz)

\* The SegFiles OpenSegFile builds from the shard files as they are now.
Replayed == [i \in Shards |-> OpenSegFile(disk[i])]

\* OpenFile(name) on the same name: every shard is replayed from its file.
OpenFile ==
    /\ ~opened
    /\ files' = Replayed
    /\ size' = OpenFileSize(Replayed, 0, 0)
    /\ opened' = TRUE
    /\ handles' = [i \in Shards |-> TRUE]
    /\ last' = [op |-> "OpenFile", err |-> "nil"]
    /\ UNCHANGED <<disk, hist>>

Next == WriteAt \/ ReadAt \/ Close \/ OpenFile

Spec == Init /\ [][Next]_vars

\* ------------------------------------------------ the store on failing I/O
\* The reads of the files that may fail: per shard, the descriptors whose
\* payload cannot be read.
BadReads ==
    { bads \in [Shards -> SUBSET (1 .. MaxIOWrites)] :
        \A i \in Shards : bads[i] \subseteq DOMAIN files[i].segs }

\* File.ReadAt(b, off) on the File as it is now when the reads of bads fail.
ReadIO(w, bads) == FileReadAtIO(files, disk, bads, size, w[2], w[1])

\* File.ReadAt(b, off) when reads of the files may fail.
ReadAtIO ==
    /\ opened
    /\ \E w \in Windows, bads \in BadReads :
          ReadIO(w, bads).err \in {"nil", "EOF", "EIO", "panic"}
    /\ UNCHANGED vars

\* File.Close when os.File.Close may fail on any of the shards.
CloseIO == CloseWith(SUBSET Shards)

NextIO == WriteAtIO \/ ReadAtIO \/ CloseIO \/ OpenFile

\* The store with writes, reads and closes of the files that may fail.
SpecIO == Init /\ [][NextIO]_vars

\* ------------------------------------------------------- mergeSegs alone
\* The segs a shard query returns for the descriptors hs (offset and size
\* of each, in the order of the shard's list): the records lie back to
\* back in the file and record j holds the payload of write tag + j.
RECURSIVE QuerySegs(_, _, _)
QuerySegs(hs, tag, c) ==
    IF Len(hs) = 0 THEN <<>>
    ELSE LET h == hs[1]
         IN <<[off |-> h.off, size |-> h.size, pos |-> c + segHeaderSize,
               data |-> Payload(tag + 1, h.size)]>>
            \o QuerySegs(Tail(hs), tag + 1, c + segHeaderSize + h.size)

\* The lists of at most MaxSegs descriptors.
Headers == [off : 0 .. MaxOff, size : 0 .. MaxLen]
HeaderLists == UNION { [1 .. n -> Headers] : n \in 0 .. MaxSegs }

\* An empty store and the two lists of segs mergeSegs is about to get.
InitMerge ==
    /\ disk = [i \in Shards |-> <<>>]
    /\ files = [i \in Shards |-> OpenSegFile(<<>>)]
    /\ size = 0
    /\ opened = TRUE
    /\ hist = <<>>
    /\ handles = [i \in Shards |-> TRUE]
    /\ \E ha \in HeaderLists, hb \in HeaderLists :
          last = [op |-> "mergeSegs",
                  a  |-> QuerySegs(ha, 0, 0),
                  b  |-> QuerySegs(hb, MaxSegs, 0)]

\* segs = mergeSegs(a, b).
Merge ==
    /\ last.op = "mergeSegs"
    /\ last' = [op |-> "merged", a |-> last.a, b |-> last.b,
                m  |-> mergeSegs(last.a, last.b)]
    /\ UNCHANGED <<disk, files, size, opened, hist, handles>>

NextMerge == Merge

\* mergeSegs applied to two lists of segs.
SpecMerge == InitMerge /\ [][NextMerge]_vars

\* ---------------------------------------------------- OpenSegFile alone
\* The replay of a log of any content, iteration by iteration; off and
\* f.off are int64: 8 little-endian bytes in two's complement.
\* x + y + c modulo 2^64 on such bytes.
RECURSIVE AddBytes(_, _, _)
AddBytes(x, y, c) ==
    IF Len(x) = 0 THEN <<>>
    ELSE LET t == x[1] + y[1] + c
         IN <<t % 256>> \o AddBytes(Tail(x), Tail(y), t \div 256)

\* The int64 x is negative.
Negative(x) == x[8] >= 128

\* The int64 x is at least 0 and below 2^24, and its value then.
Small(x) == \A k \in 4 .. 8 : x[k] = 0
Value(x) == x[1] + 256 * x[2] + 65536 * x[3]

\* The bytes the headers of the replayed logs are made of.
ByteVals == {0, 1, 240, 255}

\* A closed store whose shard 0 has a log of any content: a header with
\* any size field and up to MaxTail blocks of 16 zero bytes behind it;
\* OpenSegFile is about to read it from position 0.
InitReplay ==
    /\ files = [i \in Shards |-> OpenSegFile(<<>>)]
    /\ size = 0
    /\ opened = FALSE
    /\ hist = <<>>
    /\ handles = [i \in Shards |-> FALSE]
    /\ \E hs \in [1 .. 8 -> ByteVals], t \in 0 .. MaxTail :
          disk = [i \in Shards |->
                    IF i = 0
                    THEN PutUint64(0, 8) \o hs \o [x \in 1 .. 16 * t |-> 0]
                    ELSE <<>>]
    /\ last = [op |-> "OpenSegFile", st |-> "loop", n |-> 0,
               off |-> PutUint64(0, 8)]

\* One iteration of the loop of OpenSegFile on the file of shard 0:
\* f.file.ReadAt(buf, off) fails for a negative off (the loop returns the
\* error) and gives io.EOF at or behind the end of the file (the loop
\* ends); otherwise the header is decoded, a descriptor appended and
\* off = f.off = f.off + 16 + int64(s.size).
ReplayStep ==
    /\ last.op = "OpenSegFile" /\ last.st = "loop"
    /\ last.n < MaxReplay
    /\ LET off == last.off
           d   == disk[0]
       IN IF Negative(off)
          THEN last' = [last EXCEPT !.st = "error"]
          ELSE IF ~Small(off) \/ osReadAt(d, segHeaderSize, Value(off)).err # "nil"
          THEN last' = [last EXCEPT !.st = "done"]
          ELSE LET b  == osReadAt(d, segHeaderSize, Value(off)).b
                   sz == SubSeq(b, 9, 16)
               IN last' = [last EXCEPT
                              !.n = last.n + 1,
                              !.off = AddBytes(off,
                                        AddBytes(PutUint64(segHeaderSize, 8), sz, 0),
                                        0)]
    /\ UNCHANGED <<disk, files, size, opened, hist, handles>>

NextReplay == ReplayStep

\* OpenSegFile on a log of any content.
SpecReplay == InitReplay /\ [][NextReplay]_vars

\* ------------------------------------------------------------ the claims
\* The frames written so far are the entries of hist: frame k starts at
\* hist[k].off, holds hist[k].b and lives in shard hist[k].shard.
Frames == 1 .. Len(hist)
FrameEnd(k) == hist[k].off + Len(hist[k].b)
Covers(k, x) == hist[k].off <= x /\ x < FrameEnd(k)
ByteOf(k, x) == hist[k].b[x - hist[k].off + 1]

\* The writes came at increasing offsets, do not overlap and leave no hole:
\* each write starts where the one before it ended.
GapFree == \A k \in 1 .. (Len(hist) - 1) : FrameEnd(k) = hist[k + 1].off
\* ... and the first one starts at 0.
Contiguous == GapFree /\ (Len(hist) > 0 => hist[1].off = 0)
\* The end of the range gap-free writes cover.
Extent == IF Len(hist) = 0 THEN 0 ELSE FrameEnd(Len(hist))

\* The reference content the writes were cut from (-1 where nothing was written).
Content(x) ==
    IF \E k \in Frames : Covers(k, x)
    THEN LET k == CHOOSE k \in Frames : Covers(k, x) IN ByteOf(k, x)
    ELSE -1

\* The read w returned, and what it returned is the reference content.
ReadsContent(w) ==
    LET r == Read(w)
    IN /\ r.err # "panic"
       /\ \A p \in 1 .. r.n : r.b[p] = Content(w[1] + p - 1)

ShardReturned(i, w) ==
    LET q == SegFileReadAt(files[i], disk[i], w[1], w[2]).segs
    IN { [shard |-> i, seg |-> q[j]] : j \in 1 .. Len(q) }

Returned(w) == UNION { ShardReturned(i, w) : i \in Shards }

SegCovers(s, x) == s.off <= x /\ x < s.off + s.size

\* Every shard's descriptor list is in ascending order of offset and, at
\* equal offset, of length.
SortedShards ==
    \A i \in Shards : \A j, k \in 1 .. Len(files[i].segs) :
        j < k =>
            LET a == files[i].segs[j]
                b == files[i].segs[k]
            IN a.off < b.off \/ (a.off = b.off /\ a.size <= b.size)

C4_SameWinner ==
    opened =>
        \A j, k \in Frames :
            (/\ hist[j].shard # hist[k].shard
             /\ hist[j].off = hist[k].off
             /\ Len(hist[j].b) = Len(hist[k].b)) =>
                ~ \E w1, w2 \in Windows :
                    \E p1 \in 1 .. Read(w1).n, p2 \in 1 .. Read(w2).n :
                        LET x1 == w1[1] + p1 - 1
                            x2 == w2[1] + p2 - 1
                        IN /\ Covers(j, x1) /\ Covers(k, x2)
                           /\ Read(w1).b[p1] = ByteOf(j, x1)
                           /\ Read(w2).b[p2] = ByteOf(k, x2)

\* ------------------------------------------------------ close and reopen
\* File.ReadAt on the File that File.Close followed by OpenFile gives.
ReadReopened(w) ==
    FileReadAt(Replayed, disk, OpenFileSize(Replayed, 0, 0), w[2], w[1])

\* C5: after any writes, Close followed by OpenFile gives a File on which
\* every read returns the same count, bytes and error as before Close.
C5_ReopenSameReads ==
    opened => \A w \in Windows : ReadReopened(w) = Read(w)

\* ------------------------------------------------------------ end of data
\* C6: a read that starts at the known extent (File.size) or beyond it
\* returns 0 bytes and io.EOF, for every buffer length.
C6_EOFAtExtent ==
    opened =>
        \A w \in Windows :
            w[1] >= size => (Read(w).n = 0 /\ Read(w).err = "EOF")

\* C7: when the known extent E (File.size) is greater than 0, a read with a
\* non-empty buffer at offset E-1 returns at least one byte.
C7_ByteBeforeExtent ==
    (opened /\ size > 0) =>
        \A w \in Windows :
            (w[1] = size - 1 /\ w[2] >= 1) => Read(w).n >= 1

\* C8: when a stored frame covers the whole window and the buffer is
\* shorter than the frame, the read returns exactly len(buf) bytes, the
\* slice of the frame's payload at the window.
C8_SmallWindow ==
    opened =>
        \A k \in Frames : \A w \in Windows :
            (/\ hist[k].off <= w[1]
             /\ w[1] + w[2] <= FrameEnd(k)
             /\ w[2] < Len(hist[k].b)) =>
                /\ Read(w).n = w[2]
                /\ \A p \in 1 .. w[2] : Read(w).b[p] = ByteOf(k, w[1] + p - 1)

\* ---------------------------------------------------------------- writes
\* The k-th byte (1-based) of the little-endian form of v, for v < 2^24.
LEByte(v, k) ==
    IF k = 1 THEN v % 256
    ELSE IF k = 2 THEN (v \div 256) % 256
    ELSE IF k = 3 THEN (v \div 65536) % 256
    ELSE 0

\* The 16 bytes of the record header {off, len}.
HeaderBytes(off, len) ==
    [k \in 1 .. 16 |-> IF k <= 8 THEN LEByte(off, k) ELSE LEByte(len, k - 8)]

\* A step is a call of File.WriteAt.
WriteStep == Len(hist') = Len(hist) + 1

\* C9: every successful File.WriteAt(b, off) appends exactly one frame
\* {off, len(b)} holding all of b to exactly one shard and returns len(b);
\* the descriptor lists, cursors and stored bytes of all other shards stay
\* as they were.
C9_OneFrameOneShard ==
    [][ (WriteStep /\ last'.err = "nil") =>
          /\ last'.n = Len(last'.b)
          /\ \E i \in Shards :
                /\ files'[i].segs =
                      Append(files[i].segs,
                             [off |-> last'.off, size |-> Len(last'.b),
                              pos |-> files[i].off + 16])
                /\ files'[i].off = files[i].off + 16 + Len(last'.b)
                /\ disk'[i] =
                      disk[i] \o HeaderBytes(last'.off, Len(last'.b)) \o last'.b
                /\ \A j \in Shards \ {i} :
                      files'[j] = files[j] /\ disk'[j] = disk[j] ]_vars

\* C9 is reached: a non-empty buffer has just been written while the other
\* shard holds a frame.
C9_Witness ==
    /\ last.op = "WriteAt" /\ last.err = "nil" /\ Len(last.b) > 1
    /\ \E j \in Shards \ {last.shard} : Len(files[j].segs) > 0

\* The writes that went to shard i, in call order.
RECURSIVE ShardWrites(_, _)
ShardWrites(i, n) ==
    IF n = 0 THEN <<>>
    ELSE IF hist[n].shard = i
         THEN Append(ShardWrites(i, n - 1), hist[n])
         ELSE ShardWrites(i, n - 1)

\* C10: a shard write at cursor c stores the header at c and the payload at
\* c+16, records position c+16 and moves the cursor on by 16+len(payload),
\* and never touches earlier records: in every state the records of a shard
\* lie in its file in write order, back to back from 0 to the cursor, each
\* with its header and its payload as written, also when logical offsets
\* repeat or overlap.
C10_PureAppend ==
    \A i \in Shards :
        LET ws == ShardWrites(i, Len(hist))
            f  == files[i]
        IN /\ Len(f.segs) = Len(ws)
           /\ \A j \in 1 .. Len(ws) :
                 LET s == f.segs[j]
                     c == IF j = 1 THEN 0 ELSE f.segs[j - 1].pos + f.segs[j - 1].size
                 IN /\ s.off = ws[j].off /\ s.size = Len(ws[j].b)
                    /\ s.pos = c + 16
                    /\ SubSeq(disk[i], c + 1, c + 16) = HeaderBytes(ws[j].off, Len(ws[j].b))
                    /\ SubSeq(disk[i], s.pos + 1, s.pos + s.size) = ws[j].b
           /\ f.off = (IF Len(ws) = 0 THEN 0
                       ELSE f.segs[Len(ws)].pos + f.segs[Len(ws)].size)
           /\ Len(disk[i]) = f.off

\* C10 is reached: one shard holds three records, two of them written at
\* the same logical offset.
C10_Witness ==
    \E i \in Shards :
        /\ Len(files[i].segs) >= 3
        /\ \E j, k \in 1 .. Len(files[i].segs) :
              /\ j < k
              /\ files[i].segs[j].off = files[i].segs[k].off
              /\ files[i].segs[j].size > 0 /\ files[i].segs[k].size > 0

\* ------------------------------------------------------------------ close
\* C11: File.Close calls Close on every shard, also when the Close of an
\* earlier shard fails (and returns the first error): once File.Close has
\* returned, with an error or without, no shard's handle is left open.
C11_CloseClosesAll ==
    last.op = "Close" => \A i \in Shards : ~handles[i]

\* ------------------------------------------------------------ failing reads
\* The query of shard i for the window w reads the payload of a descriptor
\* of bads[i]: a read of the file that fails.
FailedRead(i, w, bads) ==
    LET q == SegFileReadAt(files[i], disk[i], w[1], w[2]).segs
    IN \E j \in bads[i] :
          /\ files[i].segs[j].size > 0
          /\ \E k \in 1 .. Len(q) : q[k].pos = files[i].segs[j].pos

\* C12: when a read of a payload done by a shard query during File.ReadAt
\* fails with an I/O error that is not end-of-data, File.ReadAt returns
\* that error and 0 bytes, also when the reads of later frames of that
\* shard or of other shards succeed.
C12_ReadErrorSurfaces ==
    opened =>
        \A w \in Windows : \A bads \in BadReads :
            (w[1] <= size /\ \E i \in Shards : FailedRead(i, w, bads)) =>
                (ReadIO(w, bads).err = "EIO" /\ ReadIO(w, bads).n = 0)

\* ------------------------------------------------------------------ replay
\* The record of descriptor s is wholly in the file d: its 16-byte header
\* and all of its payload.
WholeRecord(s, d) == s.pos >= segHeaderSize /\ s.pos + s.size <= Len(d)

\* C13: the replay at open indexes a record only when its 16-byte header
\* and its whole payload are in the file; a trailing record whose header or
\* payload is cut short ends the log and gets no descriptor (so that no
\* later read returns bytes for it).
C13_ReplayWholeRecords ==
    last.op = "OpenFile" =>
        \A i \in Shards : \A j \in DOMAIN files[i].segs :
            WholeRecord(files[i].segs[j], disk[i])

\* ------------------------------------------------------------ merge order
\* The list q is in ascending order of offset.
AscOff(q) == \A j, k \in 1 .. Len(q) : j < k => q[j].off <= q[k].off

\* ... and, among segs of equal offset, in ascending order of length.
AscOffLen(q) ==
    \A j, k \in 1 .. Len(q) :
        j < k => \/ q[j].off < q[k].off
                 \/ q[j].off = q[k].off /\ q[j].size <= q[k].size

\* The list q is in descending order of offset and, among segs of equal
\* offset, of length.
DescOffLen(q) ==
    \A j, k \in 1 .. Len(q) :
        j < k => \/ q[j].off > q[k].off
                 \/ q[j].off = q[k].off /\ q[j].size >= q[k].size

\* C14 (as claimed): given two inputs that are each in ascending order of
\* offset, the merge returns a sequence in DESCENDING order of offset and,
\* among frames of equal offset, in descending order of length.
C14_MergeDescending ==
    (last.op = "merged" /\ AscOff(last.a) /\ AscOff(last.b)) =>
        DescOffLen(last.m)

\* C14 (amended): given two inputs that are each in ascending order of
\* offset, the merge returns a sequence in ASCENDING order of offset; when
\* each input is also in ascending order of length among its frames of
\* equal offset, so is the sequence returned.
C14_MergeAscending ==
    last.op = "merged" =>
        /\ (AscOff(last.a) /\ AscOff(last.b)) => AscOff(last.m)
        /\ (AscOffLen(last.a) /\ AscOffLen(last.b)) => AscOffLen(last.m)

\* C14 is reached: two ordered lists of two segs each have been merged,
\* the segs of the one lie between those of the other, and two segs of
\* different lists have the same offset and different lengths.
C14_Witness ==
    /\ last.op = "merged"
    /\ Len(last.a) = 2 /\ Len(last.b) = 2
    /\ AscOffLen(last.a) /\ AscOffLen(last.b)
    /\ last.a[1].off < last.b[1].off /\ last.b[1].off < last.a[2].off
    /\ last.a[2].off = last.b[2].off /\ last.a[2].size > last.b[2].size
    /\ AscOffLen(last.m) /\ Len(last.m) = 4

\* ------------------------------------------------------------ shard query
\* The frame of descriptor s and the window w = <<off, size>> have a
\* logical offset in common.
Intersects(s, w) ==
    Max(s.off, w[1]) < Min(s.off + s.size, w[1] + w[2])

\* The descriptors of the list segs that intersect the window w, in the
\* order of the list.
RECURSIVE Intersecting(_, _)
Intersecting(segs, w) ==
    IF Len(segs) = 0 THEN <<>>
    ELSE (IF Intersects(segs[1], w) THEN <<segs[1]>> ELSE <<>>)
         \o Intersecting(Tail(segs), w)

\* The descriptors (offset, length, position) of the segs of q.
Descriptors(q) ==
    [j \in 1 .. Len(q) |-> [off |-> q[j].off, size |-> q[j].size, pos |-> q[j].pos]]

\* C15: for every shard whose descriptor list is non-decreasing in offset
\* (frames may overlap one another), the shard query for the window
\* [off, off+size) returns exactly the descriptors whose
\* [offset, offset+length) intersects the window, each once, in ascending
\* order of offset, and misses none (stated for frames and windows that
\* are not empty: an empty range intersects nothing).
C15_QueryExact ==
    \A i \in Shards :
        (   /\ AscOff(files[i].segs)
            /\ \A j \in DOMAIN files[i].segs : files[i].segs[j].size > 0) =>
            \A w \in Windows :
                w[2] > 0 =>
                    Descriptors(SegFileReadAt(files[i], disk[i], w[1], w[2]).segs)
                        = Intersecting(files[i].segs, w)

\* C16: after any sequence of File.WriteAt calls (any logical offsets, any
\* choice of shard) and after any replay at open, every shard's in-memory
\* descriptor list is non-decreasing in logical offset.
C16_ListsNonDecreasing ==
    \A i \in Shards : AscOff(files[i].segs)

\* C17: for a shard log produced by any sequence of successful shard
\* writes, opening it rebuilds the descriptor list (offset, length and
\* position of every record, in write order) and the append cursor that
\* the writing shard holds in memory: in every state a replay of the
\* shard's file gives the list and the cursor of the shard.
C17_ReplayRebuildsIndex ==
    \A i \in Shards :
        /\ OpenSegFile(disk[i]).segs = files[i].segs
        /\ OpenSegFile(disk[i]).off = files[i].off

\* C17 is reached: the store has been closed with a shard that wrote three
\* records, one of them empty, at offsets that do not increase, and the
\* replay of its file gives the list the shard held.
C17_Witness ==
    /\ ~opened
    /\ \E i \in Shards :
          /\ Len(files[i].segs) = 3
          /\ files[i].segs[1].size > 0 /\ files[i].segs[2].size = 0
          /\ files[i].segs[3].size > 0
          /\ files[i].segs[1].off > files[i].segs[3].off
          /\ Replayed[i].segs = files[i].segs
          /\ Replayed[i].off = files[i].off

\* ----------------------------------------------------------- failing writes
\* C18: a shard WriteAt (and File.WriteAt) returns no error only when both
\* the 16-byte header and the whole payload were written to the file: after
\* a WriteAt that returned no error, the file of the shard holds the header
\* {off, len(b)} at the cursor the write started from and b behind it.
C18_NoErrorMeansWritten ==
    (last.op = "WriteAt" /\ last.err = "nil") =>
        LET i == last.shard
            s == files[i].segs[Len(files[i].segs)]
            c == s.pos - segHeaderSize
        IN /\ Len(disk[i]) >= s.pos + s.size
           /\ SubSeq(disk[i], c + 1, c + segHeaderSize)
                 = HeaderBytes(last.off, Len(last.b))
           /\ SubSeq(disk[i], s.pos + 1, s.pos + s.size) = last.b

\* C19: a write that fails leaves the store as it was: no descriptor is
\* added to the list of the chosen shard, its append cursor does not move
\* and the known extent does not change.
C19_FailedWriteChangesNothing ==
    [][ (WriteStep /\ last'.err # "nil") =>
           (files' = files /\ size' = size) ]_vars

\* ----------------------------------------------------------- known extent
\* The largest offset+length of the frames written, 0 when there are none.
RECURSIVE MaxExtent(_)
MaxExtent(n) == IF n = 0 THEN 0 ELSE Max(MaxExtent(n - 1), FrameEnd(n))

\* C20: after any sequence of successful writes, and after closing and
\* reopening, the known extent of the store (File.size) is the maximum of
\* offset+length over all frames of all shards, and 0 when there are no
\* frames (stated for stores whose frames are not empty).
C20_SizeIsMaxExtent ==
    (opened /\ \A k \in Frames : Len(hist[k].b) > 0) =>
        size = MaxExtent(Len(hist))

\* ------------------------------------------------------------- slice bounds
\* C21: in every store state that writes can reach (writes that leave
\* holes, overlap or lie inside an earlier frame included) and for every
\* window, File.ReadAt completes without an out-of-range slice access (for
\* each merged frame the source index off - frame.offset lies in
\* 0..frame.length and the copy length is not negative), and the n it
\* returns satisfies 0 <= n <= len(buf).
C21_NoSliceOutOfRange ==
    opened =>
        \A w \in Windows :
            /\ Read(w).err # "panic"
            /\ 0 <= Read(w).n /\ Read(w).n <= w[2]

\* ------------------------------------------------------------ shard choice
\* The store that the first n writes of hist give when write k is routed
\* to shard r[k]: the SegFiles, the files and File.size.
RECURSIVE Routed(_, _)
Routed(r, n) ==
    IF n = 0
    THEN [files |-> [i \in Shards |-> OpenSegFile(<<>>)],
          disk  |-> [i \in Shards |-> <<>>],
          size  |-> 0]
    ELSE LET st == Routed(r, n - 1)
             i  == r[n]
             x  == SegFileWriteAt(st.files[i], st.disk[i], hist[n].b, hist[n].off)
         IN [files |-> [st.files EXCEPT ![i] = x.f],
             disk  |-> [st.disk EXCEPT ![i] = x.disk],
             size  |-> st.size + Len(hist[n].b)]

\* The shards the writes of hist went to.
Routing == [k \in 1 .. Len(hist) |-> hist[k].shard]

\* C22: for a fixed sequence of File.WriteAt calls, the result of every
\* File.ReadAt is the same whichever shard each write was routed to, also
\* when the written ranges overlap: on the store the writes have built,
\* every read returns what it returns on the store the same writes build
\* under any other choice of shards (stated for writes of buffers that are
\* not empty).
C22_ShardChoiceUnobservable ==
    LET here == Routed(Routing, Len(hist))
    IN (/\ opened /\ files = here.files /\ disk = here.disk /\ size = here.size
        /\ \A k \in Frames : Len(hist[k].b) > 0) =>
          \A r \in [1 .. Len(hist) -> Shards] :
              LET st == Routed(r, Len(hist))
              IN \A w \in Windows :
                    FileReadAt(st.files, st.disk, st.size, w[2], w[1]) = Read(w)

\* ------------------------------------------------------ replay terminates
\* C23: opening a shard terminates for every finite content of its file:
\* each replay step moves the read position forward by at least 16 bytes,
\* also for a header whose length field is so large that 16+length wraps
\* around in 64-bit arithmetic, so the replay loop always reaches
\* end-of-log or an error: it indexes no more records than the file has
\* blocks of 16 bytes.
C23_ReplayTerminates ==
    last.op = "OpenSegFile" => last.n * segHeaderSize <= Len(disk[0])

\* ------------------------------------------------------ merge keeps frames
\* The elements of m at the indices in S, in the order of m.
RECURSIVE Pick(_, _, _)
Pick(m, S, k) ==
    IF k > Len(m) THEN <<>>
    ELSE (IF k \in S THEN <<m[k]>> ELSE <<>>) \o Pick(m, S, k + 1)

\* m is made of the segs of a and of b, each seg once and those of the
\* same list in the order of that list.
Interleaved(m, a, b) ==
    /\ Len(m) = Len(a) + Len(b)
    /\ \E S \in SUBSET (1 .. Len(m)) :
          /\ Pick(m, S, 1) = a
          /\ Pick(m, (1 .. Len(m)) \ S, 1) = b

\* C24: mergeSegs(a, b) returns a sequence of length |a|+|b| that is a
\* permutation of the segs of a and b (none dropped or duplicated), keeps
\* the relative order of the segs that came from the same input, and
\* returns the other input unchanged when one input is empty.
C24_MergeKeepsFrames ==
    last.op = "merged" =>
        /\ Interleaved(last.m, last.a, last.b)
        /\ Len(last.a) = 0 => last.m = last.b
        /\ Len(last.b) = 0 => last.m = last.a

\* C24 is reached: two lists of two segs each have been merged, the
\* result has a seg of b before a seg of a and a seg of a before a seg
\* of b, and is neither list followed by the other.
C24_Witness ==
    /\ last.op = "merged"
    /\ Len(last.a) = 2 /\ Len(last.b) = 2
    /\ Len(last.m) = 4
    /\ last.m # last.a \o last.b
    /\ last.m # last.b \o last.a
    /\ last.m[1] = last.b[1] /\ last.m[2] = last.a[1]
    /\ last.a[1] # last.b[1]

====
